---- MODULE Spec2Model ----
(***************************************************************************)
(* Model of src/api/index.py: handler.do_POST and the live body of         *)
(* generate_schedule_from_config (lines 34-214; everything after the       *)
(* first `return schedule_grid` is unreachable).                           *)
(*                                                                         *)
(* A request is received, the index dictionaries are built, the MILP is    *)
(* built, the solver (PuLP/CBC, an external library) answers with a status *)
(* and, on success, with values for the binary variables, the decoder      *)
(* fills the grid and do_POST writes the response envelope.                *)
(*                                                                         *)
(* The week of the source has 6 days of 6 periods.  Every formula of the   *)
(* source is written in terms of len(days) and num_periods_per_day, so the *)
(* model keeps both as parameters and is checked on a shorter week.        *)
(***************************************************************************)
EXTENDS Integers, Sequences, FiniteSets, TLC

VARIABLES
    pc,                  \* position of the request in do_POST
    config,              \* the decoded request (json.loads(post_data))
    subjects_per_class,  \* class -> ordered dict subject -> teacher
    subject_periods,     \* class -> dict subject -> periodsPerWeek
    group_assignments,   \* set of (class, subject) taught in a group
    teacher_individual,  \* teacher -> list of non-group (class, subject)
    teacher_group,       \* teacher -> set of group indices
    allowed,             \* group index -> set of admissible periods
    teacher_visits,      \* the order in which line 164 visits all_teachers
    twin_teacher_visits, \* the same order in another interpreter process
                         \* that is given the same request
    y_vals,              \* the values of the adjacency indicators y, which
                         \* only the objective variant of the model creates
    script,              \* the group loop of the script src/api/solver.py
    status,              \* LpStatus[model.status]
    schedule_vals,       \* (class, subject) -> periods p with x[c,s,p] = 1
    group_vals,          \* group index -> periods p with g[i,p] = 1
    schedule_grid,       \* the decoder's grid
    cell_writes,         \* how often line 212 assigned each cell
    returned,            \* how generate_schedule_from_config ended
    raised,              \* the exception that left it, if any
    response             \* what do_POST wrote

vars == <<pc, config, subjects_per_class, subject_periods, group_assignments,
          teacher_individual, teacher_group, allowed, teacher_visits,
          twin_teacher_visits, y_vals, script, status, schedule_vals, group_vals, schedule_grid,
          cell_writes, returned, raised, response>>

None == "None"

----------------------------------------------------------------------------
(* Bounds of the model *)

\* len(days): the source has 6 days; the model checks a shorter week
NumDays == 2
\* the source has 6 periods per day; the model checks shorter days
num_periods_per_day == 3
\* numClasses ranges over 1..MaxClasses
MaxClasses == 2
\* periodsPerWeek of a subjectPeriodMappings entry ranges over -1..MaxDemand
MaxDemand == 3
\* periodsPerWeek of a group ranges over 1..MaxGroupPeriods
MaxGroupPeriods == 2

(* Program constants *)

\* "<= 2" of MaxTwoPerDay_class / MaxTwoPerDay_group
MaxPerDay == 2
\* "<= 1" of GroupAtMostOncePerDay
OncePerDay == 1

num_periods_per_week == num_periods_per_day * NumDays
Periods == 0 .. (num_periods_per_week - 1)
Days == 0 .. (NumDays - 1)

----------------------------------------------------------------------------
(* Python dictionaries, in insertion order: a sequence of <<key, value>> *)

DictHas(d, k) == \E j \in 1..Len(d) : d[j][1] = k

DictGet(d, k, default) ==
    IF DictHas(d, k) THEN d[CHOOSE j \in 1..Len(d) : d[j][1] = k][2] ELSE default

\* d[k] = v: an existing key keeps its position, a new key goes last
DictSet(d, k, v) ==
    IF DictHas(d, k)
    THEN [j \in 1..Len(d) |-> IF d[j][1] = k THEN <<k, v>> ELSE d[j]]
    ELSE Append(d, <<k, v>>)

DictKeys(d) == {d[j][1] : j \in 1..Len(d)}

SeqSet(s) == {s[j] : j \in 1..Len(s)}

----------------------------------------------------------------------------
(* The requests *)

Subjects == {"M", "PE"}
Teachers == {"A", "B"}
\* the class ids the mapping lists mention; numClasses ranges over
\* 1..MaxClasses, so that some of them fall outside 1..numClasses
MappedClasses == {1, 2}

E(c, s, t) == [class |-> c, subject |-> s, teacher |-> t]
D(c, s, n) == [class |-> c, subject |-> s, periodsPerWeek |-> n]

STEntries == {E(c, s, t) : c \in MappedClasses, s \in Subjects, t \in Teachers}
SPEntries(Demands) == {D(c, s, n) : c \in MappedClasses, s \in Subjects, n \in Demands}

\* lists of at most two entries of S
UpToTwo(S) == {<<>>} \cup {<<a>> : a \in S} \cup {<<a, b>> : a \in S, b \in S}
UpToOne(S) == {<<>>} \cup {<<a>> : a \in S}

\* selectedDays and selectedSlots are not validated: the lists hold numbers
\* inside and outside 1..NumDays and 1..num_periods_per_day
DayLists == UpToOne(0..(NumDays + 1)) \cup {<<1, 2>>, <<1, NumDays + 1>>}
SlotLists == UpToOne(0..(num_periods_per_day + 1))

GroupClassLists == {<<1>>, <<1, 2>>}

PlainGroups ==
    [subject : {"PE"}, classes : GroupClassLists, teacher : {"A"},
     periodsPerWeek : 1..MaxGroupPeriods,
     selectedDays : {<<>>}, selectedSlots : {<<>>}]

RestrictedGroups ==
    [subject : {"PE"}, classes : GroupClassLists, teacher : {"A"},
     periodsPerWeek : 1..MaxGroupPeriods,
     selectedDays : DayLists, selectedSlots : SlotLists]

\* requests without a group that vary the two mapping lists: class ids
\* inside and outside 1..numClasses, declared and undeclared demands
MappingRequests ==
    [numClasses : 1..MaxClasses,
     subjectTeacherMappings : UpToTwo(STEntries),
     subjectPeriodMappings : UpToOne(SPEntries({-1, 1})),
     groupClasses : {<<>>}]

\* requests without a group that vary the demand of one subject
DemandRequests ==
    [numClasses : 1..MaxClasses,
     subjectTeacherMappings : {<<E(1, "M", "A")>>, <<E(1, "M", "A"), E(1, "PE", "B")>>},
     subjectPeriodMappings : {<<D(1, "M", n)>> : n \in (-1)..MaxDemand},
     groupClasses : {<<>>}]

\* requests with one unrestricted group, whose (class, subject) pairs may or
\* may not be declared, beside at most one other subject of demand 1
PlainGroupRequests ==
    [numClasses : 1..MaxClasses,
     subjectTeacherMappings :
        {<<a>> : a \in STEntries} \cup
        {<<E(1, "PE", t), a>> : t \in Teachers, a \in STEntries},
     subjectPeriodMappings : {<<>>, <<D(1, "M", 1)>>, <<D(2, "M", 1)>>},
     groupClasses : {<<g>> : g \in PlainGroups}]

\* requests that vary the group's day and slot restrictions
GroupRequests ==
    [numClasses : {MaxClasses},
     subjectTeacherMappings : {<<E(1, "PE", "A"), E(2, "PE", t)>> : t \in Teachers},
     subjectPeriodMappings : {<<>>},
     groupClasses : {<<g>> : g \in RestrictedGroups}]

\* requests in which both classes have a subject with a demand, no group
ClashRequests ==
    {[numClasses |-> MaxClasses,
      subjectTeacherMappings |-> <<E(1, "M", t1), E(2, "M", t2)>>,
      subjectPeriodMappings |-> <<D(1, "M", n), D(2, "M", 1)>>,
      groupClasses |-> <<>>] :
        t1 \in Teachers, t2 \in Teachers, n \in {1, 2}}

\* requests in which (1, "M") has two entries in both mapping lists, beside
\* a second class taught by teacher "A"
DuplicateRequests ==
    [numClasses : {MaxClasses},
     subjectTeacherMappings :
        {<<E(1, "M", t1), E(1, "M", t2), E(2, "M", "A")>> :
            t1 \in Teachers, t2 \in Teachers} \cup
        {<<E(1, "M", t2), E(2, "M", "A")>> : t2 \in Teachers},
     subjectPeriodMappings :
        {<<D(1, "M", n), D(1, "M", 1), D(2, "M", 1)>> : n \in {1, 2}},
     groupClasses : {<<>>}]

\* requests in which two classes have one subject each, with the largest
\* demand the per-day cap admits and with a demand that does not fit beside
\* it in the week
LoadRequests ==
    {[numClasses |-> MaxClasses,
      subjectTeacherMappings |-> <<E(1, "M", "A"), E(2, "M", t2)>>,
      subjectPeriodMappings |->
         <<D(1, "M", MaxPerDay * NumDays),
           D(2, "M", num_periods_per_week - MaxPerDay * NumDays + 1)>>,
      groupClasses |-> <<>>] :
        t2 \in Teachers}

\* requests with a group of two classes beside a lesson of one of the classes
GroupAndLessonRequests ==
    {[numClasses |-> MaxClasses,
      subjectTeacherMappings |-> <<E(1, "PE", "A"), E(2, "PE", "A"), E(1, "M", t)>>,
      subjectPeriodMappings |-> <<D(1, "M", n)>>,
      groupClasses |-> <<g>>] :
        t \in Teachers, n \in {1, MaxPerDay},
        g \in {h \in PlainGroups : h.classes = <<1, 2>>}}

Requests ==
    MappingRequests \cup DemandRequests \cup PlainGroupRequests \cup
    GroupRequests \cup ClashRequests \cup DuplicateRequests \cup LoadRequests \cup
    GroupAndLessonRequests

----------------------------------------------------------------------------
(* Index builder, lines 46-66 *)

ClassRange(cfg) == 1..cfg.numClasses

RECURSIVE BuildSubjectsPerClass(_, _)
BuildSubjectsPerClass(cfg, n) ==
    IF n = 0 THEN [i \in ClassRange(cfg) |-> <<>>]
    ELSE LET m == cfg.subjectTeacherMappings[n]
         IN  [BuildSubjectsPerClass(cfg, n - 1) EXCEPT
                 ![m.class] = DictSet(@, m.subject, m.teacher)]

RECURSIVE BuildSubjectPeriods(_, _)
BuildSubjectPeriods(cfg, n) ==
    IF n = 0 THEN [i \in ClassRange(cfg) |-> <<>>]
    ELSE LET m == cfg.subjectPeriodMappings[n]
         IN  [BuildSubjectPeriods(cfg, n - 1) EXCEPT
                 ![m.class] = DictSet(@, m.subject, m.periodsPerWeek)]

BuildGroupAssignments(cfg) ==
    UNION {{<<class_id, cfg.groupClasses[i].subject>> :
                class_id \in SeqSet(cfg.groupClasses[i].classes)} :
           i \in 1..Len(cfg.groupClasses)}

\* variant: only the subject-teacher list is looked up by class id
IndexKeyErrorTeacherListOnly(cfg) ==
    \E n \in 1..Len(cfg.subjectTeacherMappings) :
        cfg.subjectTeacherMappings[n].class \notin ClassRange(cfg)

\* subjects_per_class[class_id] / subject_periods[class_id] with an unknown key
IndexKeyError(cfg) ==
    \/ \E n \in 1..Len(cfg.subjectTeacherMappings) :
          cfg.subjectTeacherMappings[n].class \notin ClassRange(cfg)
    \/ \E n \in 1..Len(cfg.subjectPeriodMappings) :
          cfg.subjectPeriodMappings[n].class \notin ClassRange(cfg)

----------------------------------------------------------------------------
(* Model builder, lines 68-189 *)

GroupIdx == 0 .. (Len(config.groupClasses) - 1)
\* group_classes[g_idx]
Group(g_idx) == config.groupClasses[g_idx + 1]

\* the keys (class_id, subject) of schedule_vars, lines 73-78
ScheduleKeys ==
    UNION {{<<class_id, subject>> : subject \in DictKeys(subjects_per_class[class_id])} :
           class_id \in DOMAIN subjects_per_class}

\* lines 89-95: one list entry per mapping, duplicates kept
RECURSIVE BuildTeacherIndividual(_, _, _)
BuildTeacherIndividual(cfg, ga, n) ==
    IF n = 0 THEN [t \in Teachers |-> <<>>]
    ELSE LET m == cfg.subjectTeacherMappings[n]
             prev == BuildTeacherIndividual(cfg, ga, n - 1)
         IN  IF <<m.class, m.subject>> \notin ga
             THEN [prev EXCEPT ![m.teacher] = Append(@, <<m.class, m.subject>>)]
             ELSE prev

\* lines 97-100
BuildTeacherGroup(cfg) ==
    [t \in Teachers |->
        {g_idx \in 0 .. (Len(cfg.groupClasses) - 1) : cfg.groupClasses[g_idx + 1].teacher = t}]

\* lines 114-122
AllowedFromDays(selectedDays) ==
    IF selectedDays # <<>>
    THEN UNION {((day - 1) * num_periods_per_day) ..
                ((day - 1) * num_periods_per_day + num_periods_per_day - 1) :
                day \in SeqSet(selectedDays)}
    ELSE Periods

\* lines 124-133
AllowedFromSlots(selectedSlots) ==
    IF selectedSlots # <<>>
    THEN {period \in {day * num_periods_per_day + (slot - 1) :
                        day \in Days, slot \in SeqSet(selectedSlots)} :
             period < num_periods_per_week}
    ELSE Periods

\* variant: selectedSlots is not looked at
AllowedDaysOnly(group) == AllowedFromDays(group.selectedDays)

\* line 135
Allowed(group) ==
    AllowedFromDays(group.selectedDays) \cap AllowedFromSlots(group.selectedSlots)

\* line 145: schedule_vars[(class_id, subject, period)] with an unknown key
ModelKeyError ==
    \E g_idx \in GroupIdx :
        \E class_id \in SeqSet(Group(g_idx).classes) :
            <<class_id, Group(g_idx).subject>> \notin ScheduleKeys

\* the periods of one day: range(start_period, end_period)
DayPeriods(day) ==
    (day * num_periods_per_day) .. ((day + 1) * num_periods_per_day - 1)

\* value of a binary variable whose periods with value 1 are S
Val(S, period) == IF period \in S THEN 1 ELSE 0

RECURSIVE SumSeq(_)
SumSeq(s) == IF s = <<>> THEN 0 ELSE s[1] + SumSeq(Tail(s))

RECURSIVE SumSet(_, _)
\* sum of S[k] over the keys k of K
SumSet(K, S) ==
    IF K = {} THEN 0
    ELSE LET k == CHOOSE k \in K : TRUE IN S[k] + SumSet(K \ {k}, S)

\* line 85: subject_periods[class_id].get(subject, 0)
periods_needed(class_id, subject) ==
    DictGet(subject_periods[class_id], subject, 0)

\* variant: ">=" in place of "=="
PeriodReqAtLeast(needed, S) == Cardinality(S) >= needed

\* line 86, PeriodReq_class{c}_{s}: sum over the week == periods_needed
PeriodReq(needed, S) == Cardinality(S) = needed

\* line 143, GroupSlotNotAllowed_g{i}_p{p}
GroupSlotNotAllowed(g_idx, S) ==
    \A period \in Periods : period \notin allowed[g_idx] => Val(S, period) = 0

\* variant: only the first class of the group is tied
TiedFirstClass(g_idx, key) ==
    /\ key[2] = Group(g_idx).subject
    /\ key[1] \in {Group(g_idx).classes[j] : j \in {1} \cap DOMAIN Group(g_idx).classes}

\* line 144: the loop over the group's classes reaches (class_id, subject)
Tied(g_idx, key) ==
    /\ key[2] = Group(g_idx).subject
    /\ key[1] \in SeqSet(Group(g_idx).classes)

\* line 145, GroupTie_class{c}_{s}_g{i}_p{p}
GroupTie(g_idx, x, S) ==
    \A key \in DOMAIN x :
        Tied(g_idx, key) =>
            \A period \in Periods : Val(x[key], period) = Val(S, period)

\* line 148, GroupPeriodRequirement_g{i}
GroupPeriodRequirement(g_idx, S) ==
    Cardinality(S) = Group(g_idx).periodsPerWeek

\* variant: the bound of the per-day cap in place of 1
GroupAtMostTwicePerDay(g_idx, S) ==
    \A day \in Days : Cardinality(S \cap DayPeriods(day)) <= MaxPerDay

\* line 155, GroupAtMostOncePerDay_g{i}_day{d}
GroupAtMostOncePerDay(g_idx, S) ==
    \A day \in Days : Cardinality(S \cap DayPeriods(day)) <= OncePerDay

\* variant: "<= 2" in place of "<= 1"
OneSubjectAtMostTwo(x) ==
    \A class_id \in DOMAIN subjects_per_class :
        \A period \in Periods :
            Cardinality({subject \in DictKeys(subjects_per_class[class_id]) :
                            period \in x[<<class_id, subject>>]}) <= 2

\* line 160, OneSubject_class{c}_p{p}
OneSubject(x) ==
    \A class_id \in DOMAIN subjects_per_class :
        \A period \in Periods :
            Cardinality({subject \in DictKeys(subjects_per_class[class_id]) :
                            period \in x[<<class_id, subject>>]}) <= 1

\* line 163
all_teachers ==
    {t \in Teachers : teacher_individual[t] # <<>>} \cup
    {t \in Teachers : teacher_group[t] # {}}

\* line 164, "for teacher in all_teachers": all_teachers is a set of str,
\* whose iteration order follows the interpreter's per-process string hash
\* and not the request; every order of the elements is possible
SetOrders(S) ==
    {s \in [1..Cardinality(S) -> S] :
        \A i \in DOMAIN s, j \in DOMAIN s : i # j => s[i] # s[j]}

\* variant: the teacher's individual list is left out of the sum
TeacherAvailabilityGroupsOnly(x, g) ==
    \A teacher \in all_teachers :
        \A period \in Periods :
            SumSet(teacher_group[teacher],
                   [g_idx \in teacher_group[teacher] |-> Val(g[g_idx], period)])
            <= 1

\* variant: the teacher's groups are left out of the sum
TeacherAvailabilityIndividualOnly(x, g) ==
    \A teacher \in all_teachers :
        \A period \in Periods :
            SumSeq([j \in 1..Len(teacher_individual[teacher]) |->
                        Val(x[teacher_individual[teacher][j]], period)])
            <= 1

\* line 172, TeacherAvailability_{t}_p{p}: every entry of the teacher's list
\* and every group of the teacher is one term of the sum
TeacherAvailability(x, g) ==
    \A teacher \in all_teachers :
        \A period \in Periods :
            SumSeq([j \in 1..Len(teacher_individual[teacher]) |->
                        Val(x[teacher_individual[teacher][j]], period)])
            + SumSet(teacher_group[teacher],
                     [g_idx \in teacher_group[teacher] |-> Val(g[g_idx], period)])
            <= 1

\* variant: the cap is added for the first day only
MaxTwoPerDayFirstDayOnly(class_id, subject, S) ==
    \A day \in {0} : Cardinality(S \cap DayPeriods(day)) <= MaxPerDay

\* line 182, MaxTwoPerDay_class{c}_{s}_day{d}
MaxTwoPerDay(class_id, subject, S) ==
    \A day \in Days : Cardinality(S \cap DayPeriods(day)) <= MaxPerDay

\* line 189, MaxTwoPerDay_group{i}_day{d}
MaxTwoPerDay_group(g_idx, S) ==
    \A day \in Days : Cardinality(S \cap DayPeriods(day)) <= MaxPerDay

\* every constraint the model holds when model.solve is called
Constraints(x, g) ==
    /\ \A key \in ScheduleKeys \ group_assignments :
          /\ PeriodReq(periods_needed(key[1], key[2]), x[key])
          /\ MaxTwoPerDay(key[1], key[2], x[key])
    /\ \A g_idx \in GroupIdx :
          /\ GroupSlotNotAllowed(g_idx, g[g_idx])
          /\ GroupTie(g_idx, x, g[g_idx])
          /\ GroupPeriodRequirement(g_idx, g[g_idx])
          /\ GroupAtMostOncePerDay(g_idx, g[g_idx])
          /\ MaxTwoPerDay_group(g_idx, g[g_idx])
    /\ OneSubject(x)
    /\ TeacherAvailability(x, g)

----------------------------------------------------------------------------
(* The solver, lines 191-195.  PuLP and CBC are a library outside the      *)
(* repository: the model lets it answer with any status of its table and   *)
(* with the "Feasible" line 194 also accepts, the two accepted ones        *)
(* together with values that satisfy every constraint of the model,        *)
(* "Infeasible" only when no values do.                                    *)

SuccessStatus == {"Optimal", "Feasible"}

\* variant: no status is refused
AcceptedAlways(st) == TRUE

\* variant: only "Infeasible" is refused
AcceptedUnlessInfeasible(st) == st # "Infeasible"

\* line 194: LpStatus[model.status] in ['Optimal', 'Feasible']
Accepted(st) == st \in {"Optimal", "Feasible"}
FailedStatus == {"Not Solved", "Unbounded", "Undefined"}

\* values a group variable can take under the constraints on it alone
GroupCandidates(g_idx) ==
    {S \in SUBSET Periods :
        /\ GroupPeriodRequirement(g_idx, S)
        /\ GroupSlotNotAllowed(g_idx, S)
        /\ GroupAtMostOncePerDay(g_idx, S)
        /\ MaxTwoPerDay_group(g_idx, S)}

\* the pairs some group ties, and the others
TiedKeys == {key \in ScheduleKeys : \E g_idx \in GroupIdx : Tied(g_idx, key)}
FreeKeys == ScheduleKeys \ TiedKeys

\* values the variables of a pair no group ties can take under the
\* constraints on them alone (the model holds a demand and a cap for the
\* pairs outside group_assignments only)
FreeCandidates(key) ==
    LET needed == periods_needed(key[1], key[2])
        grouped == key \in group_assignments
    IN  {S \in SUBSET Periods :
            ~grouped => (PeriodReq(needed, S) /\ MaxTwoPerDay(key[1], key[2], S))}

\* values the variables of a tied pair can take, the group variables being g
TiedCandidates(key, g) ==
    {g[g_idx] : g_idx \in {i \in GroupIdx : Tied(i, key)}}

RECURSIVE GroupProduct(_)
GroupProduct(I) ==
    IF I = {} THEN {<<>>}
    ELSE LET i == CHOOSE i \in I : TRUE
         IN  {(i :> S) @@ g : S \in GroupCandidates(i), g \in GroupProduct(I \ {i})}

RECURSIVE FreeProduct(_)
FreeProduct(K) ==
    IF K = {} THEN {<<>>}
    ELSE LET key == CHOOSE key \in K : TRUE
         IN  {(key :> S) @@ x : S \in FreeCandidates(key), x \in FreeProduct(K \ {key})}

RECURSIVE TiedProduct(_, _)
TiedProduct(K, g) ==
    IF K = {} THEN {<<>>}
    ELSE LET key == CHOOSE key \in K : TRUE
         IN  {(key :> S) @@ x : S \in TiedCandidates(key, g),
                                x \in TiedProduct(K \ {key}, g)}

\* the assignments of the binary variables that satisfy the model
Solutions ==
    LET free == FreeProduct(FreeKeys)
    IN  UNION {UNION {{[x |-> x, g |-> g] :
                          x \in {y \in {xf @@ xt : xf \in free} : Constraints(y, g)}} :
                      xt \in TiedProduct(TiedKeys, g)} :
               g \in GroupProduct(GroupIdx)}

----------------------------------------------------------------------------
(* Decoder, lines 197-214 *)

\* line 209, value(schedule_vars[...]) == 1: a variable the solver gave no
\* value has value None, and None == 1 is false
ValueIsOne(x, key, period) ==
    key \in DOMAIN x /\ Val(x[key], period) = 1

\* variant: the day of the period is not looked at
WritersAnyDay(x, day_index, period_index, col) ==
    {w \in UNION {{<<class_id, j, period>> :
                      j \in 1..Len(subjects_per_class[class_id]),
                      period \in {p \in Periods :
                                     p % num_periods_per_day = period_index}} :
                  class_id \in {c \in DOMAIN subjects_per_class : c - 1 = col}} :
        ValueIsOne(x, <<w[1], subjects_per_class[w[1]][w[2]][1]>>, w[3])}

\* the assignments of line 212 that land in grid[day_index][period_index][col]:
\* <<class_id, position of the subject in the dict, period>>
Writers(x, day_index, period_index, col) ==
    {w \in UNION {{<<class_id, j, period>> :
                      j \in 1..Len(subjects_per_class[class_id]),
                      period \in {p \in Periods :
                                     /\ p \div num_periods_per_day = day_index
                                     /\ p % num_periods_per_day = period_index}} :
                  class_id \in {c \in DOMAIN subjects_per_class : c - 1 = col}} :
        ValueIsOne(x, <<w[1], subjects_per_class[w[1]][w[2]][1]>>, w[3])}

\* the loops run class by class, subject by subject, period by period
Before(v, w) ==
    \/ v[1] < w[1]
    \/ v[1] = w[1] /\ v[2] < w[2]
    \/ v[1] = w[1] /\ v[2] = w[2] /\ v[3] < w[3]

\* what the cell holds after the loops: the last assignment, or None
Cell(x, day_index, period_index, col) ==
    LET W == Writers(x, day_index, period_index, col)
    IN  IF W = {} THEN [subject |-> None, teacher |-> None]
        ELSE LET w == CHOOSE w \in W : \A v \in W \ {w} : Before(v, w)
             IN  [subject |-> subjects_per_class[w[1]][w[2]][1],
                  teacher |-> subjects_per_class[w[1]][w[2]][2]]

GridOf(x) ==
    [day_index \in Days |->
        [period_index \in 0 .. (num_periods_per_day - 1) |->
            [col \in 0 .. (config.numClasses - 1) |->
                Cell(x, day_index, period_index, col)]]]

WritesOf(x) ==
    [day_index \in Days |->
        [period_index \in 0 .. (num_periods_per_day - 1) |->
            [col \in 0 .. (config.numClasses - 1) |->
                Cardinality(Writers(x, day_index, period_index, col))]]]

----------------------------------------------------------------------------
(* The request's path through do_POST *)

NoResponse == [code |-> 0, key |-> "", error |-> "", schedule |-> <<>>]

\* src/api/solver.py before its group loop
ScriptStart ==
    [pc |-> "group", has_selectedSlots |-> FALSE, raw_selectedSlots |-> <<>>,
     selectedSlots |-> <<>>, period |-> 0, forced |-> {}, raised |-> ""]

\* no y variable has been created
NoIndicators == [class |-> <<>>, group |-> <<>>]

Init ==
    /\ pc = "idle"
    /\ config = <<>>
    /\ subjects_per_class = <<>>
    /\ subject_periods = <<>>
    /\ group_assignments = {}
    /\ teacher_individual = <<>>
    /\ teacher_group = <<>>
    /\ allowed = <<>>
    /\ teacher_visits = <<>>
    /\ twin_teacher_visits = <<>>
    /\ y_vals = NoIndicators
    /\ script = ScriptStart
    /\ status = ""
    /\ schedule_vals = <<>>
    /\ group_vals = <<>>
    /\ schedule_grid = <<>>
    /\ cell_writes = <<>>
    /\ returned = ""
    /\ raised = ""
    /\ response = NoResponse

\* lines 11-16: the body is decoded and generate_schedule_from_config called
do_POST ==
    /\ pc = "idle"
    /\ \E cfg \in Requests : config' = cfg
    /\ pc' = "index"
    /\ UNCHANGED <<subjects_per_class, subject_periods, group_assignments,
                   teacher_individual, teacher_group, allowed, teacher_visits,
                   twin_teacher_visits, y_vals, script, status, schedule_vals, group_vals,
                   schedule_grid, cell_writes, returned, raised, response>>

\* lines 36-66
BuildIndex ==
    /\ pc = "index"
    /\ IF IndexKeyError(config)
       THEN /\ raised' = "KeyError"
            /\ returned' = "raise"
            /\ pc' = "respond"
            /\ UNCHANGED <<subjects_per_class, subject_periods, group_assignments>>
       ELSE /\ subjects_per_class' =
                  BuildSubjectsPerClass(config, Len(config.subjectTeacherMappings))
            /\ subject_periods' =
                  BuildSubjectPeriods(config, Len(config.subjectPeriodMappings))
            /\ group_assignments' = BuildGroupAssignments(config)
            /\ pc' = "model"
            /\ UNCHANGED <<raised, returned>>
    /\ UNCHANGED <<config, teacher_individual, teacher_group, allowed,
                   teacher_visits, twin_teacher_visits, y_vals, script, status, schedule_vals,
                   group_vals, schedule_grid, cell_writes, response>>

\* lines 68-189
BuildModel ==
    /\ pc = "model"
    /\ IF ModelKeyError
       THEN /\ raised' = "KeyError"
            /\ returned' = "raise"
            /\ pc' = "respond"
            /\ UNCHANGED <<teacher_individual, teacher_group, allowed,
                           teacher_visits, twin_teacher_visits>>
       ELSE /\ teacher_individual' =
                  BuildTeacherIndividual(config, group_assignments,
                                         Len(config.subjectTeacherMappings))
            /\ teacher_group' = BuildTeacherGroup(config)
            /\ allowed' = [g_idx \in GroupIdx |-> Allowed(Group(g_idx))]
            /\ teacher_visits' \in SetOrders(all_teachers')
            /\ twin_teacher_visits' \in SetOrders(all_teachers')
            /\ pc' = "solve"
            /\ UNCHANGED <<raised, returned>>
    /\ UNCHANGED <<config, subjects_per_class, subject_periods, group_assignments,
                   y_vals, script, status, schedule_vals, group_vals, schedule_grid,
                   cell_writes, response>>

\* lines 194-214: unless the status is accepted the function returns None,
\* otherwise it returns the decoded grid
Return(st, grid, writes) ==
    IF ~Accepted(st)
    THEN /\ returned' = "None"
         /\ UNCHANGED <<schedule_grid, cell_writes>>
    ELSE /\ schedule_grid' = grid
         /\ cell_writes' = writes
         /\ returned' = "grid"

\* lines 191-214: the solver answers, and the function returns
Solve ==
    /\ pc = "solve"
    /\ LET sols == Solutions
       IN  \/ \E sol \in sols :
                LET grid == GridOf(sol.x)
                    writes == WritesOf(sol.x)
                IN  \E st \in SuccessStatus :
                        /\ status' = st
                        /\ schedule_vals' = sol.x
                        /\ group_vals' = sol.g
                        /\ Return(st, grid, writes)
           \/ /\ sols = {}
              /\ status' = "Infeasible"
              /\ UNCHANGED <<schedule_vals, group_vals>>
              /\ Return("Infeasible", GridOf(schedule_vals), WritesOf(schedule_vals))
           \/ \E st \in FailedStatus :
                /\ status' = st
                /\ UNCHANGED <<schedule_vals, group_vals>>
                /\ Return(st, GridOf(schedule_vals), WritesOf(schedule_vals))
    /\ pc' = "respond"
    /\ UNCHANGED <<config, subjects_per_class, subject_periods, group_assignments,
                   teacher_individual, teacher_group, allowed, teacher_visits,
                   twin_teacher_visits, y_vals, script, raised, response>>

\* lines 17-26
Respond ==
    /\ pc = "respond"
    /\ response' =
          IF returned = "raise"
          THEN [code |-> 500, key |-> "error", error |-> raised, schedule |-> <<>>]
          ELSE IF returned = "None"
          THEN [code |-> 500, key |-> "error", error |-> "No solution found!",
                schedule |-> <<>>]
          ELSE [code |-> 200, key |-> "schedule", error |-> "",
                schedule |-> schedule_grid]
    /\ pc' = "done"
    /\ UNCHANGED <<config, subjects_per_class, subject_periods, group_assignments,
                   teacher_individual, teacher_group, allowed, teacher_visits,
                   twin_teacher_visits, y_vals, script, status, schedule_vals, group_vals,
                   schedule_grid, cell_writes, returned, raised>>

Next == do_POST \/ BuildIndex \/ BuildModel \/ Solve \/ Respond

Spec == Init /\ [][Next]_vars

----------------------------------------------------------------------------
(* Properties.  They are stated on the request (config) and on what the    *)
(* caller sees (schedule_grid, response), not on the builder's tables.     *)

Slots == 0 .. (num_periods_per_day - 1)
ClassesOf(cfg) == 1..cfg.numClasses

GridReturned == returned = "grid"

\* grid[d][k][c-1]
GridCell(d, k, c) == schedule_grid[d][k][c - 1]

\* the (day, slot) positions at which class c carries subject s
CellsWith(c, s) ==
    {pos \in Days \X Slots : GridCell(pos[1], pos[2], c).subject = s}

\* (c, s) has an entry in subjectTeacherMappings
Declared(c, s) ==
    \E n \in 1..Len(config.subjectTeacherMappings) :
        /\ config.subjectTeacherMappings[n].class = c
        /\ config.subjectTeacherMappings[n].subject = s

\* (c, s) is listed by some group
InGroup(c, s) ==
    \E i \in 1..Len(config.groupClasses) :
        /\ config.groupClasses[i].subject = s
        /\ c \in SeqSet(config.groupClasses[i].classes)

DemandEntries(c, s) ==
    {n \in 1..Len(config.subjectPeriodMappings) :
        /\ config.subjectPeriodMappings[n].class = c
        /\ config.subjectPeriodMappings[n].subject = s}

\* D[c][s]: the periodsPerWeek given for (c, s), 0 without an entry
DemandOf(c, s) ==
    IF DemandEntries(c, s) = {} THEN 0
    ELSE config.subjectPeriodMappings[
            CHOOSE n \in DemandEntries(c, s) : \A m \in DemandEntries(c, s) : m <= n
         ].periodsPerWeek

\* C1: in a returned grid every declared non-group (class, subject) fills
\* exactly D[c][s] cells, 0 of them when it has no demand entry
C1_DemandMet ==
    GridReturned =>
        \A c \in ClassesOf(config), s \in Subjects :
            (Declared(c, s) /\ ~InGroup(c, s)) =>
                Cardinality(CellsWith(c, s)) = DemandOf(c, s)

\* a grid with a subject of demand MaxDemand and a declared subject without
\* a demand entry
C1_Witness ==
    /\ GridReturned
    /\ \E c \in ClassesOf(config), s \in Subjects :
          /\ Declared(c, s) /\ ~InGroup(c, s)
          /\ DemandOf(c, s) = MaxDemand
          /\ Cardinality(CellsWith(c, s)) = MaxDemand
    /\ \E c \in ClassesOf(config), s \in Subjects :
          /\ Declared(c, s) /\ ~InGroup(c, s)
          /\ DemandEntries(c, s) = {}
          /\ CellsWith(c, s) = {}

\* C2: in a returned grid the classes of a group carry the group's subject
\* at one common set of exactly periodsPerWeek positions
C2_GroupMovesAsOne ==
    GridReturned =>
        \A i \in 1..Len(config.groupClasses) :
            LET grp == config.groupClasses[i]
            IN  /\ \A c \in SeqSet(grp.classes) :
                      Cardinality(CellsWith(c, grp.subject)) = grp.periodsPerWeek
                /\ \A c1 \in SeqSet(grp.classes), c2 \in SeqSet(grp.classes) :
                      CellsWith(c1, grp.subject) = CellsWith(c2, grp.subject)

\* a grid in which a group of two classes meets twice
C2_Witness ==
    /\ GridReturned
    /\ \E i \in 1..Len(config.groupClasses) :
          /\ Len(config.groupClasses[i].classes) = 2
          /\ config.groupClasses[i].periodsPerWeek = 2
          /\ Cardinality(CellsWith(1, config.groupClasses[i].subject)) = 2
          /\ CellsWith(1, config.groupClasses[i].subject)
               = CellsWith(2, config.groupClasses[i].subject)

\* C3: in an accepted solution a class has at most one subject with
\* x[c,s,p] = 1 in a period, and the decoder assigns no cell twice
C3_OneSubjectPerCell ==
    /\ (pc \in {"respond", "done"} /\ status \in {"Optimal", "Feasible"}) =>
          \A key1 \in DOMAIN schedule_vals, key2 \in DOMAIN schedule_vals :
              (key1[1] = key2[1] /\ key1[2] # key2[2]) =>
                  schedule_vals[key1] \cap schedule_vals[key2] = {}
    /\ GridReturned =>
          \A d \in Days, k \in Slots, c \in ClassesOf(config) :
              cell_writes[d][k][c - 1] <= 1

\* a grid in which one class carries two different subjects
C3_Witness ==
    /\ GridReturned
    /\ \E c \in ClassesOf(config) :
          \E s1 \in Subjects, s2 \in Subjects :
              /\ s1 # s2
              /\ CellsWith(c, s1) # {}
              /\ CellsWith(c, s2) # {}

\* the classes whose cell at (d, k) shows teacher t
ShownIn(t, d, k) ==
    {c \in ClassesOf(config) : GridCell(d, k, c).teacher = t}

\* the cells of ShownIn(t, d, k) whose (class, subject) belongs to no group
ShownOutsideGroups(t, d, k) ==
    {c \in ShownIn(t, d, k) : ~InGroup(c, GridCell(d, k, c).subject)}

\* some class of group i carries the group's subject at (d, k)
GroupMeetsAt(i, d, k) ==
    \E c \in SeqSet(config.groupClasses[i].classes) \cap ClassesOf(config) :
        GridCell(d, k, c).subject = config.groupClasses[i].subject

\* C4 as stated: in a returned grid a teacher name is the teacher field of
\* at most one of the N cells of a (day, slot), groups included
C4_TeacherInOneCell ==
    GridReturned =>
        \A t \in Teachers, d \in Days, k \in Slots :
            Cardinality(ShownIn(t, d, k)) <= 1

\* C4, amended: in a returned grid a teacher name is the teacher field of at
\* most one cell of a (day, slot) among the cells whose (class, subject)
\* belongs to no group, and of none of them when a group whose teacher is
\* that name meets at the (day, slot)
C4_TeacherInOneNonGroupCell ==
    GridReturned =>
        \A t \in Teachers, d \in Days, k \in Slots :
            /\ Cardinality(ShownOutsideGroups(t, d, k)) <= 1
            /\ (\E i \in 1..Len(config.groupClasses) :
                    config.groupClasses[i].teacher = t /\ GroupMeetsAt(i, d, k))
                  => ShownOutsideGroups(t, d, k) = {}

\* a grid in which one teacher has non-group cells in two classes
C4_Witness ==
    /\ GridReturned
    /\ \E t \in Teachers :
          \E pos1 \in Days \X Slots, pos2 \in Days \X Slots :
              /\ 1 \in ShownOutsideGroups(t, pos1[1], pos1[2])
              /\ 2 \in ClassesOf(config)
              /\ 2 \in ShownOutsideGroups(t, pos2[1], pos2[2])

\* the slots of day d at which class c carries the subject of group i
GroupDaySlots(i, c, d) ==
    {k \in Slots : GridCell(d, k, c).subject = config.groupClasses[i].subject}

\* C5: in a returned grid every class of a group carries the group's subject
\* in at most one slot of a day, hence on periodsPerWeek distinct days
C5_GroupOncePerDay ==
    GridReturned =>
        \A i \in 1..Len(config.groupClasses) :
            \A c \in SeqSet(config.groupClasses[i].classes) :
                /\ \A d \in Days : Cardinality(GroupDaySlots(i, c, d)) <= 1
                /\ Cardinality({d \in Days : GroupDaySlots(i, c, d) # {}})
                     = config.groupClasses[i].periodsPerWeek

\* a grid in which a group that meets twice occupies two days
C5_Witness ==
    /\ GridReturned
    /\ \E i \in 1..Len(config.groupClasses) :
          /\ config.groupClasses[i].periodsPerWeek = 2
          /\ \E c \in SeqSet(config.groupClasses[i].classes) :
                Cardinality({d \in Days : GroupDaySlots(i, c, d) # {}}) = 2

\* the slots of day d at which class c carries subject s
DaySlots(c, s, d) == {k \in Slots : GridCell(d, k, c).subject = s}

\* C6: in a returned grid a declared non-group (class, subject) fills at
\* most two slots of a day
C6_AtMostTwoPerDay ==
    GridReturned =>
        \A c \in ClassesOf(config), s \in Subjects :
            (Declared(c, s) /\ ~InGroup(c, s)) =>
                \A d \in Days : Cardinality(DaySlots(c, s, d)) <= 2

\* a grid in which a subject of demand MaxDemand fills two slots of a day
C6_Witness ==
    /\ GridReturned
    /\ \E c \in ClassesOf(config), s \in Subjects, d \in Days :
          /\ Declared(c, s) /\ ~InGroup(c, s)
          /\ DemandOf(c, s) = MaxDemand
          /\ Cardinality(DaySlots(c, s, d)) = 2

\* group grp excludes (d, k): a non-empty selectedDays without d + 1 or a
\* non-empty selectedSlots without k + 1
Excluded(grp, d, k) ==
    \/ grp.selectedDays # <<>> /\ (d + 1) \notin SeqSet(grp.selectedDays)
    \/ grp.selectedSlots # <<>> /\ (k + 1) \notin SeqSet(grp.selectedSlots)

\* C7: in a returned grid no class of a group carries the group's subject
\* at a (day, slot) the group's selectedDays or selectedSlots exclude,
\* whatever integers the two lists hold
C7_AdmissibleOnly ==
    GridReturned =>
        \A i \in 1..Len(config.groupClasses), d \in Days, k \in Slots :
            Excluded(config.groupClasses[i], d, k) =>
                \A c \in SeqSet(config.groupClasses[i].classes) :
                    GridCell(d, k, c).subject # config.groupClasses[i].subject

\* a grid in which a group whose only slot number is num_periods_per_day + 1
\* meets in the first slot of a day
C7_Witness ==
    /\ GridReturned
    /\ \E i \in 1..Len(config.groupClasses) :
          /\ config.groupClasses[i].selectedSlots = <<num_periods_per_day + 1>>
          /\ \E d \in Days : GroupMeetsAt(i, d, 0)

\* a mapping entry or a group names a class outside 1..numClasses, or a
\* group names a (class, subject) without an entry in subjectTeacherMappings
BadReference ==
    \/ \E n \in 1..Len(config.subjectTeacherMappings) :
          config.subjectTeacherMappings[n].class \notin ClassesOf(config)
    \/ \E n \in 1..Len(config.subjectPeriodMappings) :
          config.subjectPeriodMappings[n].class \notin ClassesOf(config)
    \/ \E i \in 1..Len(config.groupClasses) :
          \E c \in SeqSet(config.groupClasses[i].classes) :
              \/ c \notin ClassesOf(config)
              \/ ~Declared(c, config.groupClasses[i].subject)

\* C8: a request with a class id outside 1..numClasses or with a group on an
\* undeclared (class, subject) ends with an exception and the error
\* envelope: nothing is solved and no grid is returned
C8_BadReferenceRejected ==
    (pc # "idle" /\ BadReference) =>
        /\ returned # "grid"
        /\ status = ""
        /\ schedule_grid = <<>>
        /\ pc \in {"respond", "done"} => (returned = "raise" /\ raised = "KeyError")
        /\ pc = "done" =>
              (response.code = 500 /\ response.key = "error" /\ response.error = raised)

\* the error envelope for a group on an undeclared (class, subject), every
\* class id of the two mapping lists being inside 1..numClasses
C8_Witness ==
    /\ pc = "done"
    /\ ~IndexKeyError(config)
    /\ \E i \in 1..Len(config.groupClasses) :
          \E c \in SeqSet(config.groupClasses[i].classes) :
              c \in ClassesOf(config) /\ ~Declared(c, config.groupClasses[i].subject)
    /\ response.key = "error"
    /\ response.error = "KeyError"

\* a negative demand, a day outside 1..NumDays or a slot outside
\* 1..num_periods_per_day
InvalidValues ==
    \/ \E n \in 1..Len(config.subjectPeriodMappings) :
          config.subjectPeriodMappings[n].periodsPerWeek < 0
    \/ \E i \in 1..Len(config.groupClasses) :
          \E day \in SeqSet(config.groupClasses[i].selectedDays) :
              day \notin 1..NumDays
    \/ \E i \in 1..Len(config.groupClasses) :
          \E slot \in SeqSet(config.groupClasses[i].selectedSlots) :
              slot \notin 1..num_periods_per_day

\* C9: a request with a negative demand, a day outside 1..NumDays or a slot
\* outside 1..num_periods_per_day is rejected with InvalidConfig before
\* anything is solved, and never yields a grid
C9_InvalidConfigRejected ==
    (pc \in {"respond", "done"} /\ InvalidValues) =>
        /\ returned = "raise"
        /\ raised = "InvalidConfig"
        /\ status = ""

\* the success envelope for a request with such a value
C9_Witness ==
    /\ pc = "done"
    /\ InvalidValues
    /\ ~BadReference
    /\ response.code = 200
    /\ response.key = "schedule"

\* C10: once the solver has answered, a grid is returned exactly when the
\* status is Optimal or Feasible; with any other status None is returned,
\* nothing is decoded, and do_POST answers with the error envelope
C10_GridIffAccepted ==
    /\ (pc \in {"respond", "done"} /\ status # "") =>
          /\ GridReturned <=> status \in {"Optimal", "Feasible"}
          /\ ~GridReturned =>
                (returned = "None" /\ schedule_grid = <<>> /\ cell_writes = <<>>)
    /\ (pc = "done" /\ status # "") =>
          /\ status \notin {"Optimal", "Feasible"} =>
                /\ response.key = "error"
                /\ response.error = "No solution found!"
                /\ response.schedule = <<>>
          /\ status \in {"Optimal", "Feasible"} =>
                (response.key = "schedule" /\ response.schedule = schedule_grid)

\* the error envelope after a status other than Optimal and Feasible, for a
\* request that has a solution
C10_Witness ==
    /\ pc = "done"
    /\ status \in FailedStatus
    /\ config.subjectPeriodMappings # <<>>
    /\ ~InvalidValues
    /\ returned = "None"
    /\ response.key = "error"

----------------------------------------------------------------------------
(* The request that keeps the last entry of every (class, subject) *)

\* the positions of s no later position repeats the (class, subject) of
LastPositions(s) ==
    {n \in 1..Len(s) :
        \A m \in (n + 1)..Len(s) :
            ~(s[m].class = s[n].class /\ s[m].subject = s[n].subject)}

RECURSIVE Restrict(_, _, _)
\* the entries of s at the positions of keep, from position n on, in order
Restrict(s, keep, n) ==
    IF n > Len(s) THEN <<>>
    ELSE IF n \in keep THEN <<s[n]>> \o Restrict(s, keep, n + 1)
    ELSE Restrict(s, keep, n + 1)

KeepLast(s) == Restrict(s, LastPositions(s), 1)

LastOnly(cfg) ==
    [cfg EXCEPT !.subjectTeacherMappings = KeepLast(@),
                !.subjectPeriodMappings = KeepLast(@)]

HasDuplicate(s) == LastPositions(s) # 1..Len(s)

\* two dictionaries with the same keys and the same values
SameDict(d1, d2) ==
    /\ DictKeys(d1) = DictKeys(d2)
    /\ \A k \in DictKeys(d1) : DictGet(d1, k, None) = DictGet(d2, k, None)

\* lines 89-95 run on LastOnly(config)
TeacherIndividualLastOnly ==
    BuildTeacherIndividual(LastOnly(config), group_assignments,
                           Len(LastOnly(config).subjectTeacherMappings))

\* line 172 run on LastOnly(config): line 163 visits the teachers with an
\* entry or a group, and a teacher without entries adds an empty sum
TeacherAvailabilityLastOnly(x, g) ==
    \A teacher \in Teachers :
        \A period \in Periods :
            SumSeq([j \in 1..Len(TeacherIndividualLastOnly[teacher]) |->
                        Val(x[TeacherIndividualLastOnly[teacher][j]], period)])
            + SumSet(teacher_group[teacher],
                     [g_idx \in teacher_group[teacher] |-> Val(g[g_idx], period)])
            <= 1

\* the assignments that satisfy the model built for LastOnly(config): its
\* index dictionaries are those of config, its teacher lists are not
SolutionsLastOnly ==
    LET free == FreeProduct(FreeKeys)
    IN  UNION {UNION {{[x |-> x, g |-> g] :
                          x \in {y \in {xf @@ xt : xf \in free} :
                                    /\ \A key \in ScheduleKeys \ group_assignments :
                                          /\ PeriodReq(periods_needed(key[1], key[2]), y[key])
                                          /\ MaxTwoPerDay(key[1], key[2], y[key])
                                    /\ \A g_idx \in GroupIdx :
                                          /\ GroupSlotNotAllowed(g_idx, g[g_idx])
                                          /\ GroupTie(g_idx, y, g[g_idx])
                                          /\ GroupPeriodRequirement(g_idx, g[g_idx])
                                          /\ GroupAtMostOncePerDay(g_idx, g[g_idx])
                                          /\ MaxTwoPerDay_group(g_idx, g[g_idx])
                                    /\ OneSubject(y)
                                    /\ TeacherAvailabilityLastOnly(y, g)}} :
                      xt \in TiedProduct(TiedKeys, g)} :
               g \in GroupProduct(GroupIdx)}

\* C11: the model built for a request has the satisfying assignments of the
\* model built for the request that keeps the last entry of every
\* (class, subject) of the two mapping lists
C11_LastWriteWins ==
    pc = "solve" =>
        /\ \A c \in ClassesOf(config) :
              /\ SameDict(subjects_per_class[c],
                          BuildSubjectsPerClass(LastOnly(config),
                              Len(LastOnly(config).subjectTeacherMappings))[c])
              /\ SameDict(subject_periods[c],
                          BuildSubjectPeriods(LastOnly(config),
                              Len(LastOnly(config).subjectPeriodMappings))[c])
        /\ Solutions = SolutionsLastOnly

\* a request with a repeated subjectTeacherMappings entry whose model has no
\* satisfying assignment while the model of its last entries has one
C11_Witness ==
    /\ pc = "solve"
    /\ HasDuplicate(config.subjectTeacherMappings)
    /\ Solutions = {}
    /\ SolutionsLastOnly # {}

\* the two satisfying sets differ although both are non-empty: the repeated
\* entries name different teachers
C11_DifferentTeachers ==
    ~(/\ pc = "solve"
      /\ \E n \in 1..Len(config.subjectTeacherMappings) :
            \E m \in (n + 1)..Len(config.subjectTeacherMappings) :
                /\ config.subjectTeacherMappings[n].class = config.subjectTeacherMappings[m].class
                /\ config.subjectTeacherMappings[n].subject = config.subjectTeacherMappings[m].subject
                /\ config.subjectTeacherMappings[n].teacher # config.subjectTeacherMappings[m].teacher
      /\ Solutions # {}
      /\ Solutions # SolutionsLastOnly)

\* the part of C11 that holds: repeated subjectPeriodMappings entries alone
\* leave the satisfying assignments those of the last entries
C11_DemandLastWriteWins ==
    (pc = "solve" /\ ~HasDuplicate(config.subjectTeacherMappings)) =>
        Solutions = SolutionsLastOnly

\* a request that repeats a subjectPeriodMappings entry with another value
\* and no subjectTeacherMappings entry, the last value being the one met
C11_DemandWitness ==
    /\ GridReturned
    /\ ~HasDuplicate(config.subjectTeacherMappings)
    /\ \E n \in 1..Len(config.subjectPeriodMappings) :
          \E m \in (n + 1)..Len(config.subjectPeriodMappings) :
              /\ config.subjectPeriodMappings[n].class = 1
              /\ config.subjectPeriodMappings[m].class = 1
              /\ config.subjectPeriodMappings[n].periodsPerWeek = 2
              /\ config.subjectPeriodMappings[m].periodsPerWeek = 1
              /\ Cardinality(CellsWith(1, config.subjectPeriodMappings[m].subject)) = 1

----------------------------------------------------------------------------
(* The constraints of the model in the order of their creation, each named *)
(* as its f-string names it                                                *)

RECURSIVE Concat(_)
\* the concatenation of a sequence of sequences
Concat(ss) == IF ss = <<>> THEN <<>> ELSE Head(ss) \o Concat(Tail(ss))

\* "for class_id in subjects_per_class: for subject in
\* subjects_per_class[class_id]": the dictionaries are visited in insertion
\* order, skipping the pairs of group_assignments
NonGroupKeysInOrder ==
    LET NotInGroupAssignments(key) == key \notin group_assignments
    IN  SelectSeq(
            Concat([class_id \in 1..config.numClasses |->
                       [j \in 1..Len(subjects_per_class[class_id]) |->
                           <<class_id, subjects_per_class[class_id][j][1]>>]]),
            NotInGroupAssignments)

\* lines 80-86
PeriodReqNames ==
    [n \in 1..Len(NonGroupKeysInOrder) |->
        <<"PeriodReq", NonGroupKeysInOrder[n][1], NonGroupKeysInOrder[n][2]>>]

\* lines 139-148, for one group
GroupNames(g_idx) ==
    Concat([n \in 1..num_periods_per_week |->
               (IF (n - 1) \notin allowed[g_idx]
                THEN <<<<"GroupSlotNotAllowed", g_idx, n - 1>>>>
                ELSE <<>>)
               \o [j \in 1..Len(Group(g_idx).classes) |->
                      <<"GroupTie", Group(g_idx).classes[j], Group(g_idx).subject,
                        g_idx, n - 1>>]])
    \o <<<<"GroupPeriodRequirement", g_idx>>>>

\* one name per group and day, lines 151-155 and 185-189
GroupDayNames(name) ==
    Concat([i \in 1..Len(config.groupClasses) |->
               [d \in 1..NumDays |-> <<name, i - 1, d - 1>>]])

\* lines 158-160
OneSubjectNames ==
    Concat([class_id \in 1..config.numClasses |->
               [n \in 1..num_periods_per_week |-> <<"OneSubject", class_id, n - 1>>]])

\* lines 164-172, the teachers being visited in the order visits
TeacherAvailabilityNames(visits) ==
    Concat([v \in 1..Len(visits) |->
               [n \in 1..num_periods_per_week |->
                   <<"TeacherAvailability", visits[v], n - 1>>]])

\* lines 176-182
MaxTwoPerDayNames ==
    Concat([n \in 1..Len(NonGroupKeysInOrder) |->
               [d \in 1..NumDays |->
                   <<"MaxTwoPerDay_class", NonGroupKeysInOrder[n][1],
                     NonGroupKeysInOrder[n][2], d - 1>>]])

\* model.constraints after line 189, in insertion order
ConstraintNames(visits) ==
    PeriodReqNames
    \o Concat([i \in 1..Len(config.groupClasses) |-> GroupNames(i - 1)])
    \o GroupDayNames("GroupAtMostOncePerDay")
    \o OneSubjectNames
    \o TeacherAvailabilityNames(visits)
    \o MaxTwoPerDayNames
    \o GroupDayNames("MaxTwoPerDay_group")

\* C12: two runs on one request create the same constraints in the same
\* order
C12_SameConstraintOrder ==
    pc = "solve" =>
        ConstraintNames(teacher_visits) = ConstraintNames(twin_teacher_visits)

\* two runs on one request that add the TeacherAvailability constraints of
\* two teachers in opposite orders
C12_Witness ==
    /\ pc = "solve"
    /\ Len(teacher_visits) = 2
    /\ teacher_visits[1] = twin_teacher_visits[2]
    /\ teacher_visits[2] = twin_teacher_visits[1]
    /\ ConstraintNames(teacher_visits) # ConstraintNames(twin_teacher_visits)

\* the part of C12 that holds: the two runs create the same constraints, and
\* in the same order when at most one teacher has a lesson or a group
C12_SameConstraints ==
    pc = "solve" =>
        /\ SeqSet(ConstraintNames(teacher_visits))
             = SeqSet(ConstraintNames(twin_teacher_visits))
        /\ Cardinality(all_teachers) <= 1 =>
              ConstraintNames(teacher_visits) = ConstraintNames(twin_teacher_visits)

----------------------------------------------------------------------------
(* Adjacent pairs *)

\* the (day, slot) pairs at which the periods S hold both slot k and slot
\* k + 1 of the day
AdjacentIn(S) ==
    {pos \in Days \X (0 .. (num_periods_per_day - 2)) :
        /\ (pos[1] * num_periods_per_day + pos[2]) \in S
        /\ (pos[1] * num_periods_per_day + pos[2] + 1) \in S}

\* the number of triples (non-group pair or group, day, slot) with the
\* subject or the group in both slot k and slot k + 1 of the day
AdjacentPairs(x, g) ==
    SumSet(DOMAIN x \ group_assignments,
           [key \in DOMAIN x \ group_assignments |-> Cardinality(AdjacentIn(x[key]))])
    + SumSet(DOMAIN g, [g_idx \in DOMAIN g |-> Cardinality(AdjacentIn(g[g_idx]))])

\* C13: the assignment behind a returned grid has the largest number of
\* adjacent pairs among the assignments that satisfy the constraints
C13_MaximisesAdjacentPairs ==
    (pc = "respond" /\ GridReturned) =>
        \A sol \in Solutions :
            AdjacentPairs(sol.x, sol.g) <= AdjacentPairs(schedule_vals, group_vals)

\* a grid for one class with one subject of demand 2 and nothing else, whose
\* two cells are not in consecutive slots of one day
C13_Witness ==
    /\ pc = "done"
    /\ response.key = "schedule"
    /\ config.numClasses = 1
    /\ config.groupClasses = <<>>
    /\ Len(config.subjectTeacherMappings) = 1
    /\ \E s \in Subjects :
          /\ Declared(1, s)
          /\ DemandOf(1, s) = 2
          /\ Cardinality(CellsWith(1, s)) = 2
          /\ \A d \in Days, k \in 0 .. (num_periods_per_day - 2) :
                ~(<<d, k>> \in CellsWith(1, s) /\ <<d, k + 1>> \in CellsWith(1, s))

----------------------------------------------------------------------------
(* Teacher load *)

\* S[c][s]: the teacher of the last subjectTeacherMappings entry of (c, s)
MappedTeacher(c, s) ==
    LET entries == {n \in 1..Len(config.subjectTeacherMappings) :
                       /\ config.subjectTeacherMappings[n].class = c
                       /\ config.subjectTeacherMappings[n].subject = s}
    IN  IF entries = {} THEN None
        ELSE config.subjectTeacherMappings[
                CHOOSE n \in entries : \A m \in entries : m <= n].teacher

\* the declared non-group pairs of teacher t
PairsOf(t) ==
    {key \in ClassesOf(config) \X Subjects :
        /\ Declared(key[1], key[2])
        /\ ~InGroup(key[1], key[2])
        /\ MappedTeacher(key[1], key[2]) = t}

\* the groups whose teacher is t
GroupsOf(t) ==
    {i \in 1..Len(config.groupClasses) : config.groupClasses[i].teacher = t}

\* the weekly demand of t's non-group pairs plus the periodsPerWeek of t's
\* groups
TeacherLoad(t) ==
    SumSet(PairsOf(t), [key \in PairsOf(t) |-> DemandOf(key[1], key[2])])
    + SumSet(GroupsOf(t), [i \in GroupsOf(t) |-> config.groupClasses[i].periodsPerWeek])

Overloaded == \E t \in Teachers : TeacherLoad(t) > num_periods_per_week

\* C14: a request that asks more periods of one teacher than the week has
\* returns no grid: None when the model was built, and the error envelope
C14_OverloadHasNoGrid ==
    (pc \in {"respond", "done"} /\ Overloaded) =>
        /\ ~GridReturned
        /\ raised = "" => (returned = "None" /\ status \notin {"Optimal", "Feasible"})
        /\ pc = "done" => response.key = "error"

\* the no-solution answer to a request whose demands the per-day cap admits
\* one by one, and that ask more of one teacher than the week has
C14_Witness ==
    /\ pc = "done"
    /\ Overloaded
    /\ \A c \in ClassesOf(config), s \in Subjects :
          DemandOf(c, s) \in 0 .. (2 * NumDays)
    /\ status = "Infeasible"
    /\ returned = "None"
    /\ response.error = "No solution found!"

----------------------------------------------------------------------------
(* The decoded grid *)

NullCell == [subject |-> None, teacher |-> None]

\* C15: a returned grid has NumDays x num_periods_per_day x numClasses
\* cells; grid[d][k][c-1] is {s, S[c][s]} exactly when x[c,s,d*P+k] is 1, and
\* null when no subject of c has value 1 there; every x = 1 is in its cell
C15_GridIsTheSolution ==
    GridReturned =>
        /\ DOMAIN schedule_grid = Days
        /\ \A d \in Days :
              /\ DOMAIN schedule_grid[d] = Slots
              /\ \A k \in Slots :
                    DOMAIN schedule_grid[d][k] = 0 .. (config.numClasses - 1)
        /\ \A d \in Days, k \in Slots, c \in ClassesOf(config) :
              /\ \A s \in Subjects :
                    (GridCell(d, k, c) = [subject |-> s, teacher |-> MappedTeacher(c, s)])
                    <=> (/\ <<c, s>> \in DOMAIN schedule_vals
                         /\ (d * num_periods_per_day + k) \in schedule_vals[<<c, s>>])
              /\ (GridCell(d, k, c) = NullCell)
                    <=> (\A s \in Subjects :
                            <<c, s>> \in DOMAIN schedule_vals =>
                                (d * num_periods_per_day + k) \notin schedule_vals[<<c, s>>])
        /\ \A key \in DOMAIN schedule_vals :
              \A p \in schedule_vals[key] :
                  /\ p \div num_periods_per_day \in Days
                  /\ p % num_periods_per_day \in Slots
                  /\ GridCell(p \div num_periods_per_day, p % num_periods_per_day,
                              key[1]).subject = key[2]

\* a grid of two classes with a cell in the last slot of the last day and an
\* empty cell in the same slot of the first day
C15_Witness ==
    /\ GridReturned
    /\ config.numClasses = 2
    /\ \E c \in ClassesOf(config) :
          /\ GridCell(NumDays - 1, num_periods_per_day - 1, c) # NullCell
          /\ (num_periods_per_week - 1)
                \in schedule_vals[<<c, GridCell(NumDays - 1, num_periods_per_day - 1, c).subject>>]
          /\ GridCell(0, num_periods_per_day - 1, c) = NullCell

----------------------------------------------------------------------------
(* Sessions of a teacher *)

\* the non-group pairs of t and the groups of t that are held in period p
SessionsAt(t, p) ==
    Cardinality({key \in PairsOf(t) : p \in schedule_vals[key]})
    + Cardinality({i \in GroupsOf(t) : p \in group_vals[i - 1]})

\* C16: in an accepted solution a teacher has at most one session in a
\* period, a group counting once whatever the number of its classes
C16_OneSessionPerTeacher ==
    (pc \in {"respond", "done"} /\ status \in {"Optimal", "Feasible"}) =>
        \A t \in Teachers, p \in Periods : SessionsAt(t, p) <= 1

\* an accepted solution in which one teacher holds a group of two classes in
\* one period and a non-group lesson in another
C16_Witness ==
    /\ pc = "done"
    /\ status \in {"Optimal", "Feasible"}
    /\ \E t \in Teachers :
          /\ \E i \in GroupsOf(t) :
                /\ Len(config.groupClasses[i].classes) = 2
                /\ group_vals[i - 1] # {}
          /\ \E key \in PairsOf(t) : schedule_vals[key] # {}

----------------------------------------------------------------------------
(* The objective variant of the model, lines 215-426.  The text follows    *)
(* the first `return schedule_grid` of generate_schedule_from_config, so   *)
(* no request runs it.  Up to line 368 it repeats lines 35-189 (without    *)
(* the dummy objective), so the index builder and the model builder above  *)
(* describe it as well; lines 370-401 add the indicators y and the         *)
(* objective, lines 403-426 repeat lines 191-214.                          *)

\* range(day * num_periods_per_day, (day + 1) * num_periods_per_day), line 377
PeriodsOfDay(day) ==
    [n \in 1..num_periods_per_day |-> day * num_periods_per_day + n - 1]

\* p1 = periods[p], p2 = periods[p + 1], lines 379-380
PairPeriods(day, p) == <<PeriodsOfDay(day)[p + 1], PeriodsOfDay(day)[p + 2]>>

\* lines 373-381: one y per non-group (class, subject), day and
\* p in range(num_periods_per_day - 1)
YClassKeys ==
    {<<key[1], key[2], day, p>> :
        key \in ScheduleKeys \ group_assignments,
        day \in Days, p \in 0 .. (num_periods_per_day - 2)}

\* lines 388-394
YGroupKeys == GroupIdx \X Days \X (0 .. (num_periods_per_day - 2))

\* variant: the lower bound on y is left out
AdjacencyLinkUpperOnly(y, x1, x2) ==
    /\ y <= x1
    /\ y <= x2

\* lines 382-384 and 395-397: the three inequalities on one y
AdjacencyLink(y, x1, x2) ==
    /\ y <= x1
    /\ y <= x2
    /\ y >= x1 + x2 - 1

\* the values of y[c, s, day, p] the inequalities admit beside x
YClassCandidates(ykey, x) ==
    {y \in {0, 1} :
        AdjacencyLink(y,
                      Val(x[<<ykey[1], ykey[2]>>], PairPeriods(ykey[3], ykey[4])[1]),
                      Val(x[<<ykey[1], ykey[2]>>], PairPeriods(ykey[3], ykey[4])[2]))}

\* the values of y_group[g_idx, day, p] the inequalities admit beside g
YGroupCandidates(ykey, g) ==
    {y \in {0, 1} :
        AdjacencyLink(y,
                      Val(g[ykey[1]], PairPeriods(ykey[2], ykey[3])[1]),
                      Val(g[ykey[1]], PairPeriods(ykey[2], ykey[3])[2]))}

RECURSIVE YClassProduct(_, _)
YClassProduct(K, x) ==
    IF K = {} THEN {<<>>}
    ELSE LET ykey == CHOOSE ykey \in K : TRUE
         IN  {(ykey :> y) @@ rest :
                 y \in YClassCandidates(ykey, x), rest \in YClassProduct(K \ {ykey}, x)}

RECURSIVE YGroupProduct(_, _)
YGroupProduct(K, g) ==
    IF K = {} THEN {<<>>}
    ELSE LET ykey == CHOOSE ykey \in K : TRUE
         IN  {(ykey :> y) @@ rest :
                 y \in YGroupCandidates(ykey, g), rest \in YGroupProduct(K \ {ykey}, g)}

\* the assignments of x, g and y that satisfy the variant's constraints
ObjectiveSolutions ==
    UNION {{[x |-> sol.x, g |-> sol.g, y |-> [class |-> yc, group |-> yg]] :
               yc \in YClassProduct(YClassKeys, sol.x),
               yg \in YGroupProduct(YGroupKeys, sol.g)} :
           sol \in Solutions}

\* lpSum(all_y_vars), line 401
SumOfY(y) ==
    SumSet(DOMAIN y.class, y.class) + SumSet(DOMAIN y.group, y.group)

\* the assignments of sols with the largest lpSum(all_y_vars)
Largest(sols) ==
    LET sums == {SumOfY(sol.y) : sol \in sols}
        top == CHOOSE n \in sums : \A m \in sums : m <= n
    IN  {sol \in sols : SumOfY(sol.y) = top}

\* lines 403-426: the solver answers, and the variant returns
SolveObjective ==
    /\ pc = "solve"
    /\ LET sols == ObjectiveSolutions
       IN  \* "Optimal" comes with an assignment no other betters: the
           \* objective -lpSum(all_y_vars) is minimised
           \/ \E sol \in Largest(sols) :
                /\ status' = "Optimal"
                /\ schedule_vals' = sol.x
                /\ group_vals' = sol.g
                /\ y_vals' = sol.y
                /\ Return("Optimal", GridOf(sol.x), WritesOf(sol.x))
           \/ \E sol \in sols :
                /\ status' = "Feasible"
                /\ schedule_vals' = sol.x
                /\ group_vals' = sol.g
                /\ y_vals' = sol.y
                /\ Return("Feasible", GridOf(sol.x), WritesOf(sol.x))
           \/ /\ sols = {}
              /\ status' = "Infeasible"
              /\ UNCHANGED <<schedule_vals, group_vals, y_vals>>
              /\ Return("Infeasible", GridOf(schedule_vals), WritesOf(schedule_vals))
           \/ \E st \in FailedStatus :
                /\ status' = st
                /\ UNCHANGED <<schedule_vals, group_vals, y_vals>>
                /\ Return(st, GridOf(schedule_vals), WritesOf(schedule_vals))
    /\ pc' = "respond"
    /\ UNCHANGED <<config, subjects_per_class, subject_periods, group_assignments,
                   teacher_individual, teacher_group, allowed, teacher_visits,
                   twin_teacher_visits, script, raised, response>>

NextObjective == do_POST \/ BuildIndex \/ BuildModel \/ SolveObjective \/ Respond

SpecObjective == Init /\ [][NextObjective]_vars

\* C17: in an accepted solution of the objective variant there is one y per
\* non-group (class, subject), day d and k in 0..P-2, and one per group, d
\* and k; it is 1 exactly when x (or g) is 1 at d*P+k and at d*P+k+1, two
\* slots of the one day d
C17_IndicatorIsConjunction ==
    (pc \in {"respond", "done"} /\ status \in {"Optimal", "Feasible"}) =>
        /\ DOMAIN y_vals.class =
              {<<key[1], key[2], d, k>> :
                  key \in {kk \in ClassesOf(config) \X Subjects :
                              Declared(kk[1], kk[2]) /\ ~InGroup(kk[1], kk[2])},
                  d \in Days, k \in 0 .. (num_periods_per_day - 2)}
        /\ DOMAIN y_vals.group =
              {<<i - 1, d, k>> :
                  i \in 1..Len(config.groupClasses),
                  d \in Days, k \in 0 .. (num_periods_per_day - 2)}
        /\ \A ykey \in DOMAIN y_vals.class :
              /\ y_vals.class[ykey] \in {0, 1}
              /\ y_vals.class[ykey] = 1 <=>
                    /\ (ykey[3] * num_periods_per_day + ykey[4])
                          \in schedule_vals[<<ykey[1], ykey[2]>>]
                    /\ (ykey[3] * num_periods_per_day + ykey[4] + 1)
                          \in schedule_vals[<<ykey[1], ykey[2]>>]
              /\ (ykey[3] * num_periods_per_day + ykey[4] + 1) \div num_periods_per_day
                    = ykey[3]
        /\ \A ykey \in DOMAIN y_vals.group :
              /\ y_vals.group[ykey] \in {0, 1}
              /\ y_vals.group[ykey] = 1 <=>
                    /\ (ykey[2] * num_periods_per_day + ykey[3]) \in group_vals[ykey[1]]
                    /\ (ykey[2] * num_periods_per_day + ykey[3] + 1) \in group_vals[ykey[1]]
        /\ \A c \in ClassesOf(config), s \in Subjects, d \in Days :
              (Declared(c, s) /\ ~InGroup(c, s)) =>
                  Cardinality({k \in 0 .. (num_periods_per_day - 1) :
                                  <<c, s, d, k>> \in DOMAIN y_vals.class})
                    = num_periods_per_day - 1

\* an accepted solution of the variant with an indicator at 1, and with a
\* subject in the last slot of a day and the first slot of the next day
C17_Witness ==
    /\ pc = "done"
    /\ status \in {"Optimal", "Feasible"}
    /\ \E ykey \in DOMAIN y_vals.class : y_vals.class[ykey] = 1
    /\ \E key \in DOMAIN schedule_vals :
          /\ (num_periods_per_day - 1) \in schedule_vals[key]
          /\ num_periods_per_day \in schedule_vals[key]
          /\ \A ykey \in DOMAIN y_vals.class :
                (ykey[1] = key[1] /\ ykey[2] = key[2] /\ ykey[3] = 1)
                    => y_vals.class[ykey] = 0

----------------------------------------------------------------------------
(* Admissible periods *)

\* every entry of selectedDays is in 1..NumDays and every entry of
\* selectedSlots in 1..num_periods_per_day
ValidRestrictions(grp) ==
    /\ SeqSet(grp.selectedDays) \subseteq 1..NumDays
    /\ SeqSet(grp.selectedSlots) \subseteq 1..num_periods_per_day

\* the periods whose day and slot the two lists admit, an empty list
\* admitting all
Admissible(grp) ==
    {p \in Periods :
        /\ grp.selectedDays = <<>>
              \/ (p \div num_periods_per_day) + 1 \in SeqSet(grp.selectedDays)
        /\ grp.selectedSlots = <<>>
              \/ (p % num_periods_per_day) + 1 \in SeqSet(grp.selectedSlots)}

\* C18: for a group whose selectedDays and selectedSlots entries are in
\* range, allowed is the set of periods whose day and slot the lists admit;
\* so a group of periodsPerWeek 2 with selectedDays [1,2] and selectedSlots
\* [3] meets in slot index 2 of days 0 and 1, and one with selectedSlots [1]
\* alone in slot index 0 of two different days
C18_AllowedIsAdmissible ==
    /\ (pc \in {"solve", "respond", "done"} /\ raised = "") =>
          \A i \in 1..Len(config.groupClasses) :
              ValidRestrictions(config.groupClasses[i]) =>
                  allowed[i - 1] = Admissible(config.groupClasses[i])
    /\ GridReturned =>
          \A i \in 1..Len(config.groupClasses) :
              LET grp == config.groupClasses[i]
              IN  grp.periodsPerWeek = 2 =>
                    \A c \in SeqSet(grp.classes) :
                        /\ (grp.selectedDays = <<1, 2>> /\ grp.selectedSlots = <<3>>) =>
                              CellsWith(c, grp.subject) = {<<0, 2>>, <<1, 2>>}
                        /\ (grp.selectedDays = <<>> /\ grp.selectedSlots = <<1>>) =>
                              /\ \A pos \in CellsWith(c, grp.subject) : pos[2] = 0
                              /\ Cardinality({pos[1] : pos \in CellsWith(c, grp.subject)}) = 2

\* a grid for a group of periodsPerWeek 2 with selectedDays [1,2] and
\* selectedSlots [3]
C18_Witness ==
    /\ GridReturned
    /\ \E i \in 1..Len(config.groupClasses) :
          /\ config.groupClasses[i].periodsPerWeek = 2
          /\ config.groupClasses[i].selectedDays = <<1, 2>>
          /\ config.groupClasses[i].selectedSlots = <<3>>
          /\ allowed[i - 1] = {2, num_periods_per_day + 2}
          /\ \E c \in SeqSet(config.groupClasses[i].classes) :
                CellsWith(c, config.groupClasses[i].subject) = {<<0, 2>>, <<1, 2>>}

----------------------------------------------------------------------------
(* The script src/api/solver.py (CP-SAT).  It has its own week, and builds *)
(* the group variables in the loop of lines 107-122.                       *)

\* solver.py line 19
script_num_periods_per_day == 7
\* solver.py line 18, len(days)
script_num_days == 6
\* solver.py line 20
script_num_periods_per_week == script_num_periods_per_day * script_num_days

\* the selectedSlots lists of the group: up to two slot numbers of
\* 1..script_num_periods_per_day
ScriptSlotLists == UpToTwo(1..script_num_periods_per_day)

\* solver.py lines 107-112: the group is read.  group.get('selectedSlots',
\* None) is iterated by the list comprehension of line 111, which raises
\* TypeError when the key is missing
ScriptReadGroup ==
    /\ script.pc = "group"
    /\ \/ script' = [script EXCEPT !.has_selectedSlots = FALSE,
                                   !.raised = "TypeError",
                                   !.pc = "failed"]
       \/ \E slots \in ScriptSlotLists :
             script' = [script EXCEPT !.has_selectedSlots = TRUE,
                                      !.raw_selectedSlots = slots,
                                      !.selectedSlots =
                                          [j \in 1..Len(slots) |-> slots[j] - 1],
                                      !.period = 0,
                                      !.pc = "period"]
    /\ UNCHANGED <<pc, config, subjects_per_class, subject_periods, group_assignments,
                   teacher_individual, teacher_group, allowed, teacher_visits,
                   twin_teacher_visits, y_vals, status, schedule_vals, group_vals,
                   schedule_grid, cell_writes, returned, raised, response>>

\* solver.py lines 113-121, one turn of "for period in
\* range(num_periods_per_week)": line 115 compares the week period with the
\* list of slot indices (which is a list, never None, at this point)
ScriptGroupPeriod ==
    /\ script.pc = "period"
    /\ script.period < script_num_periods_per_week
    /\ script' = [script EXCEPT
                     !.forced = IF script.period \notin SeqSet(script.selectedSlots)
                                THEN @ \cup {script.period} ELSE @,
                     !.period = @ + 1]
    /\ UNCHANGED <<pc, config, subjects_per_class, subject_periods, group_assignments,
                   teacher_individual, teacher_group, allowed, teacher_visits,
                   twin_teacher_visits, y_vals, status, schedule_vals, group_vals,
                   schedule_grid, cell_writes, returned, raised, response>>

\* solver.py line 122: the loop over the periods has ended
ScriptGroupDone ==
    /\ script.pc = "period"
    /\ script.period = script_num_periods_per_week
    /\ script' = [script EXCEPT !.pc = "built"]
    /\ UNCHANGED <<pc, config, subjects_per_class, subject_periods, group_assignments,
                   teacher_individual, teacher_group, allowed, teacher_visits,
                   twin_teacher_visits, y_vals, status, schedule_vals, group_vals,
                   schedule_grid, cell_writes, returned, raised, response>>

NextScript == ScriptReadGroup \/ ScriptGroupPeriod \/ ScriptGroupDone

SpecScript == Init /\ [][NextScript]_vars

ScriptPeriods == 0 .. (script_num_periods_per_week - 1)

\* C19: the script builds the group's variables without failing, and forces
\* the variable of week period p to 0 exactly when selectedSlots is given,
\* is not empty and lacks (p mod P) + 1
C19_ScriptSlotWithinDay ==
    /\ script.pc # "failed"
    /\ script.pc = "built" =>
          \A p \in ScriptPeriods :
              p \in script.forced <=>
                  /\ script.has_selectedSlots
                  /\ script.raw_selectedSlots # <<>>
                  /\ ((p % script_num_periods_per_day) + 1)
                        \notin SeqSet(script.raw_selectedSlots)

\* the group variables built for selectedSlots [1]: slot 1 of the second day
\* is forced to 0
C19_Witness ==
    /\ script.pc = "built"
    /\ script.raw_selectedSlots = <<1>>
    /\ script_num_periods_per_day \in script.forced
    /\ 0 \notin script.forced

\* an empty selectedSlots forces every group variable to 0
C19_EmptyListForcesAll ==
    ~(/\ script.pc = "built"
      /\ script.raw_selectedSlots = <<>>
      /\ script.forced = ScriptPeriods)

\* what the script does: a period is left free exactly when it is one of
\* the first script_num_periods_per_day periods of the week and its slot
\* number is listed
C19_ScriptFirstDayOnly ==
    script.pc = "built" =>
        \A p \in ScriptPeriods :
            p \notin script.forced <=> (p + 1) \in SeqSet(script.raw_selectedSlots)

----------------------------------------------------------------------------
(* The no-solution outcome *)

\* the model was built and the solver has answered
Solved == pc \in {"respond", "done"} /\ raised = ""

\* the returned grid is the decoding of values that satisfy every constraint
\* of the model
DecodesSatisfyingAssignment ==
    /\ DOMAIN schedule_vals = ScheduleKeys
    /\ DOMAIN group_vals = GroupIdx
    /\ \A key \in ScheduleKeys : schedule_vals[key] \subseteq Periods
    /\ \A g_idx \in GroupIdx : group_vals[g_idx] \subseteq Periods
    /\ Constraints(schedule_vals, group_vals)
    /\ schedule_grid = GridOf(schedule_vals)

\* C20 as stated: once the model is built, a grid is returned exactly when
\* some assignment satisfies the constraints, it decodes such an assignment,
\* and None is returned only when there is none
C20_GridIffSatisfiable ==
    Solved =>
        /\ GridReturned => DecodesSatisfyingAssignment
        /\ ~GridReturned => (returned = "None" /\ Solutions = {})

\* C20, amended: a returned grid decodes an assignment that satisfies the
\* constraints; None with the status Infeasible is returned only when no
\* assignment satisfies them; with a status that is neither accepted nor
\* Infeasible None is returned whether or not there is one
C20_GridIffSatisfiableAndSolved ==
    Solved =>
        /\ GridReturned => DecodesSatisfyingAssignment
        /\ ~GridReturned =>
              /\ returned = "None"
              /\ status = "Infeasible" => Solutions = {}
              /\ Solutions # {} => status \in FailedStatus

\* None after the status Infeasible for a request with valid values whose
\* model no assignment satisfies
C20_Witness ==
    /\ pc = "done"
    /\ raised = ""
    /\ ~InvalidValues
    /\ returned = "None"
    /\ status = "Infeasible"
    /\ Solutions = {}

\* None for a request whose model has a satisfying assignment, the solver
\* having ended without a result
C20_NoneThoughSatisfiable ==
    ~(/\ pc = "done"
      /\ raised = ""
      /\ returned = "None"
      /\ status = "Not Solved"
      /\ Solutions # {})

----------------------------------------------------------------------------
(* What the indicators of the objective variant can add up to *)

\* the number of triples (non-group pair, day, slot) with the subject in both
\* slot k and slot k + 1 of the day
NonGroupPairs(x) ==
    SumSet(DOMAIN x \ group_assignments,
           [key \in DOMAIN x \ group_assignments |-> Cardinality(AdjacentIn(x[key]))])

\* the indicators of one non-group (class, subject) on one day
DayIndicators(y, class_id, subject, day) ==
    {ykey \in DOMAIN y.class :
        ykey[1] = class_id /\ ykey[2] = subject /\ ykey[3] = day}

\* every group indicator is 0, so lpSum(all_y_vars) is the sum of the class
\* indicators alone and counts the adjacent pairs of the non-group subjects;
\* a non-group (class, subject) has at most one indicator at 1 on a day
GroupTermsVanish(x, y) ==
    /\ \A ykey \in DOMAIN y.group : y.group[ykey] = 0
    /\ SumOfY(y) = SumSet(DOMAIN y.class, y.class)
    /\ SumOfY(y) = NonGroupPairs(x)
    /\ \A key \in DOMAIN x \ group_assignments :
          \A day \in Days :
              /\ SumSet(DayIndicators(y, key[1], key[2], day), y.class) <= 1
              /\ Cardinality({p \in 0 .. (num_periods_per_day - 2) :
                                 /\ PairPeriods(day, p)[1] \in x[key]
                                 /\ PairPeriods(day, p)[2] \in x[key]}) <= 1

\* C21: in the objective variant every assignment that satisfies the
\* constraints has all group indicators at 0 and at most one adjacent pair
\* per non-group (class, subject, day); the largest lpSum(all_y_vars), which
\* the objective of line 401 negates, is the largest number of adjacent pairs
\* of non-group subjects an assignment can have, and the solution returned
\* as Optimal has that many
C21_GroupIndicatorsVanish ==
    /\ pc = "solve" =>
          /\ \A sol \in ObjectiveSolutions : GroupTermsVanish(sol.x, sol.y)
          /\ \A n \in {SumOfY(sol.y) : sol \in Largest(ObjectiveSolutions)} :
                /\ \A sol \in Solutions : NonGroupPairs(sol.x) <= n
                /\ \E sol \in Solutions : NonGroupPairs(sol.x) = n
    /\ (pc \in {"respond", "done"} /\ status \in {"Optimal", "Feasible"}) =>
          GroupTermsVanish(schedule_vals, y_vals)

\* an Optimal solution of the variant in which a group meets twice, on
\* different days, with every group indicator at 0, and a non-group subject
\* has an adjacent pair
C21_Witness ==
    /\ pc = "done"
    /\ status = "Optimal"
    /\ \E g_idx \in DOMAIN group_vals : Cardinality(group_vals[g_idx]) = 2
    /\ DOMAIN y_vals.group # {}
    /\ \A ykey \in DOMAIN y_vals.group : y_vals.group[ykey] = 0
    /\ SumOfY(y_vals) >= 1

====
